---- MODULE Spec2Model ----
(***************************************************************************)
(* Checkpoint core of dozer: dozer-core/src/checkpoint/mod.rs.             *)
(*                                                                         *)
(* CheckpointFactory owns a record store and an upload queue; every        *)
(* CheckpointWriter commits one record-store slice when it is dropped; the *)
(* upload worker applies the queued commands to storage; a new factory     *)
(* rebuilds the record store and the last checkpoint from storage.         *)
(*                                                                         *)
(* Bytes are sequences of naturals.  Keys are paths below the factory      *)
(* prefix: sequences of components, each a sequence of ASCII codes.        *)
(***************************************************************************)
EXTENDS Integers, Sequences, FiniteSets, TLC

\* ------------------------------------------------------------------ bounds

\* Highest epoch id a writer is created with.
MaxEpoch == 1
\* Records are the values 1..MaxRecord.
MaxRecord == 2
\* Writers alive at the same time.
MaxWriters == 2
\* Failures over a run: a failed storage call, the death of the worker, the
\* kill of the process.
MaxFaults == 1
\* Objects damaged or planted in the directory from outside.
MaxDamage == 2
\* Largest page the storage returns from one list call.
MaxPage == 2
\* Processor objects created over a run.
MaxObjects == 1

\* Width of the epoch id in a key ("{:020}").
EpochWidth == 20
\* Length of the slice header (u64 little endian).
HeaderLen == 8
\* persist_queue_capacity of the model's factory options.
QueueCapacity == 1

\* ------------------------------------------------------------ sequences

RECURSIVE Concat(_)
Concat(ss) == IF ss = <<>> THEN <<>> ELSE Head(ss) \o Concat(Tail(ss))

RECURSIVE Repeat(_, _)
Repeat(x, n) == IF n <= 0 THEN <<>> ELSE <<x>> \o Repeat(x, n - 1)

Last(s) == s[Len(s)]

Take(s, n) == SubSeq(s, 1, IF n < Len(s) THEN n ELSE Len(s))

Range(s) == {s[i] : i \in 1..Len(s)}

Min(S) == CHOOSE x \in S : \A y \in S : x <= y

Max(S) == CHOOSE x \in S : \A y \in S : y <= x

\* The first index at which a and b differ, or 0.
FirstDifference(a, b, n) ==
    IF \E i \in 1..n : a[i] # b[i]
    THEN Min({i \in 1..n : a[i] # b[i]})
    ELSE 0

LessAt(a, b, i) == IF i = 0 THEN Len(a) < Len(b) ELSE a[i] < b[i]

\* Byte-wise lexicographic order, as the storage orders its keys.
LexLess(a, b) ==
    \E x \in {a} : \E y \in {b} :
        LessAt(x, y, FirstDifference(x, y, IF Len(x) < Len(y) THEN Len(x) ELSE Len(y)))

\* ----------------------------------------------------------------- results

Ok(v) == [ok |-> TRUE, val |-> v]

Err(e) == [ok |-> FALSE, err |-> e]

\* The ? operator: the error returns, the value goes on.
Bind(result, Then(_)) == IF result.ok THEN Then(result.val) ELSE result

\* Result::map_err
MapErr(result, e) == IF result.ok THEN result ELSE Err(e)

NoKey == <<>>

NotEnoughData(expected, remaining) ==
    [kind |-> "NotEnoughData", expected |-> expected, remaining |-> remaining,
     key |-> NoKey]

OtherError(kind) == [kind |-> kind, expected |-> 0, remaining |-> 0, key |-> NoKey]

BincodeError == OtherError("Bincode")

StorageError == OtherError("Storage")

UnrecognizedCheckpoint(key) ==
    [kind |-> "UnrecognizedCheckpoint", expected |-> 0, remaining |-> 0, key |-> key]

CheckpointWriterThreadPanicked == OtherError("CheckpointWriterThreadPanicked")

\* ------------------------------------------------------------- integers

\* u64::to_le_bytes, k bytes of it.
RECURSIVE to_le_bytes(_, _)
to_le_bytes(n, k) ==
    IF k = 0 THEN <<>> ELSE <<n % 256>> \o to_le_bytes(n \div 256, k - 1)

\* u64::from_le_bytes.
RECURSIVE from_le_bytes(_)
from_le_bytes(bytes) ==
    IF bytes = <<>> THEN 0 ELSE Head(bytes) + 256 * from_le_bytes(Tail(bytes))

\* The decimal digits of n as ASCII codes, most significant first.
RECURSIVE Digits(_)
Digits(n) ==
    IF n < 10 THEN <<48 + n>> ELSE Digits(n \div 10) \o <<48 + (n % 10)>>

\* A format without the minimum width.
pad_nothing(digits) == digits

\* format!("{:020}", _) on the decimal digits of the number: zeros in front up
\* to the minimum width; a longer number is not cut.
pad_epoch_digits(digits) == Repeat(48, EpochWidth - Len(digits)) \o digits

\* format!("{:020}", epoch_id)
format_epoch_id(epoch_id) == pad_epoch_digits(Digits(epoch_id))

RECURSIVE DigitsValue(_, _)
DigitsValue(s, acc) ==
    IF s = <<>> THEN acc ELSE DigitsValue(Tail(s), 10 * acc + (Head(s) - 48))

\* The decimal digits of u64::MAX, 18446744073709551615.
U64MaxDigits ==
    <<49, 56, 52, 52, 54, 55, 52, 52, 48, 55, 51, 55, 48, 57, 53, 53, 49, 54, 49, 53>>

\* The digits without their leading zeros.
RECURSIVE StripZeros(_)
StripZeros(digits) ==
    IF Len(digits) > 1 /\ Head(digits) = 48 THEN StripZeros(Tail(digits)) ELSE digits

\* The order of two numbers given by their digits without leading zeros.
DigitsLess(a, b) == Len(a) < Len(b) \/ (Len(a) = Len(b) /\ LexLess(a, b))

\* str::parse::<u64> on the digits: an optional '+', then one or more decimal
\* digits of a number that is at most u64::MAX.  It returns the digits of the
\* number.
parse_u64_digits(s) ==
    LET body == IF s # <<>> /\ Head(s) = 43 THEN Tail(s) ELSE s
    IN  IF body = <<>> \/ \E i \in 1..Len(body) : body[i] \notin 48..57
        THEN Err("ParseIntError")
        ELSE IF DigitsLess(U64MaxDigits, StripZeros(body))
        THEN Err("ParseIntError")
        ELSE Ok(StripZeros(body))

\* str::parse::<u64>.  The epoch ids the model computes with stay below 2^31.
parse_u64(s) ==
    Bind(parse_u64_digits(s), LAMBDA digits : Ok(DigitsValue(digits, 0)))

\* ----------------------------------------------------------------- keys

\* "record_store"
RecordStoreDir == <<114, 101, 99, 111, 114, 100, 95, 115, 116, 111, 114, 101>>

\* The prefix create_data_storage returns for the checkpoint directory: "d".
factory_prefix == << <<100>> >>

\* record_store_prefix(factory_prefix)
record_store_prefix(prefix) == Append(prefix, RecordStoreDir)

\* processor_prefix(factory_prefix, epoch_id): the path joined with the string.
processor_prefix(prefix, epoch_id) == Append(prefix, epoch_id)

\* NodeHandle::to_string of handle h: "h<h>".
NodeHandleString(h) == <<104, 48 + h>>

\* processor_key(processor_prefix, node_handle)
processor_key(prefix, h) == Append(prefix, NodeHandleString(h))

\* The slice key CheckpointWriter::new computes.
record_store_key(prefix, epoch_id) ==
    Append(record_store_prefix(prefix), format_epoch_id(epoch_id))

\* The key as the string the storage orders: components joined by '/'.
RECURSIVE KeyString(_)
KeyString(key) ==
    IF key = <<>> THEN <<>>
    ELSE IF Len(key) = 1 THEN Head(key)
    ELSE Head(key) \o <<47>> \o KeyString(Tail(key))

IsPrefix(p, s) == Len(p) <= Len(s) /\ SubSeq(s, 1, Len(p)) = p

\* Utf8Path::strip_prefix: component-wise.
strip_prefix(key, prefix) ==
    IF IsPrefix(prefix, key)
    THEN Ok(SubSeq(key, Len(prefix) + 1, Len(key)))
    ELSE Err("StripPrefixError")

\* -------------------------------------------------------- source states

\* Node handles of the sources.
Handles == {1, 2}

\* Node handles of the processors that keep state.
ProcessorHandles == {3}

\* SourceStates: a map from node handles to positions.  The sources have moved
\* on at every epoch: at epoch e source h is at (e + 1, h).  Either source 1
\* alone or every source reports.
SourceStatesAt(epoch_id) ==
    {[h \in hs |-> <<epoch_id + 1, h>>] : hs \in {{1}, Handles}}

RECURSIVE SortedSeq(_)
SortedSeq(S) ==
    IF S = {} THEN <<>> ELSE <<Min(S)>> \o SortedSeq(S \ {Min(S)})

RECURSIVE EncodeEntries(_, _)
EncodeEntries(m, hs) ==
    IF hs = <<>> THEN <<>>
    ELSE <<Head(hs), m[Head(hs)][1], m[Head(hs)][2]>> \o EncodeEntries(m, Tail(hs))

\* bincode::serialize of the map: the number of entries, then each entry as
\* handle, txid, seq_in_tx.
bincode_serialize(source_states) ==
    <<Cardinality(DOMAIN source_states)>>
        \o EncodeEntries(source_states, SortedSeq(DOMAIN source_states))

\* bincode::deserialize (trailing bytes allowed); a later entry of a handle
\* replaces an earlier one.
bincode_deserialize(bytes) ==
    IF bytes = <<>> THEN Err(BincodeError)
    ELSE LET n == Head(bytes)
         IN  IF Len(bytes) < 1 + 3 * n THEN Err(BincodeError)
             ELSE LET hs == {bytes[3 * i - 1] : i \in 1..n}
                      at(h) == Max({i \in 1..n : bytes[3 * i - 1] = h})
                  IN  Ok([h \in hs |-> <<bytes[3 * at(h)], bytes[3 * at(h) + 1]>>])

\* ---------------------------------------------------------- record store

Records == 1..MaxRecord

\* ProcessorRecordStore::new
EmptyRecordStore == <<>>

num_records(record_store) == Len(record_store)

IndexOf(record_store, record) ==
    CHOOSE i \in 1..Len(record_store) : record_store[i] = record

\* An insert that does not look for an equal record.
create_ref_appending(record_store, record) == Append(record_store, record)

\* ProcessorRecordStore::create_ref: the store afterwards (interning insert).
create_ref(record_store, record) ==
    IF record \in Range(record_store) THEN record_store
    ELSE Append(record_store, record)

\* ProcessorRecordStore::create_ref: the index of the reference it returns
\* (counted from 0).
create_ref_index(record_store, record) ==
    IndexOf(create_ref(record_store, record), record) - 1

\* ProcessorRecordStore::serialize_slice(from_index): the records from
\* from_index on, preceded by their number.
serialize_slice(record_store, from_index) ==
    LET n == Len(record_store) - from_index
    IN  [data |-> <<n>> \o SubSeq(record_store, from_index + 1, Len(record_store)),
         num_records_serialized |-> n]

\* ProcessorRecordStore::get(i): the record at index i (counted from 0).
get(record_store, i) == record_store[i + 1]

\* A store that keeps the records of the last slice only.
deserialize_and_replace(record_store, data) ==
    IF data = <<>> THEN Err(OtherError("RecordStore"))
    ELSE IF Len(data) < 1 + Head(data) THEN Err(OtherError("RecordStore"))
    ELSE Ok(SubSeq(data, 2, 1 + Head(data)))

\* ProcessorRecordStore::deserialize_and_extend
deserialize_and_extend(record_store, data) ==
    IF data = <<>> THEN Err(OtherError("RecordStore"))
    ELSE IF Len(data) < 1 + Head(data) THEN Err(OtherError("RecordStore"))
    ELSE Ok(record_store \o SubSeq(data, 2, 1 + Head(data)))

\* ----------------------------------------------------------- checkpoint

\* OptionCheckpoint { checkpoint: None }
NoCheckpoint ==
    [present |-> FALSE, num_slices |-> 0, processor_prefix |-> <<>>,
     epoch_id |-> 0, source_states |-> <<>>]

SomeCheckpoint(num_slices, prefix, epoch_id, source_states) ==
    [present |-> TRUE, num_slices |-> num_slices, processor_prefix |-> prefix,
     epoch_id |-> epoch_id, source_states |-> source_states]

\* OptionCheckpoint::num_slices
num_slices(checkpoint) ==
    IF checkpoint.present THEN checkpoint.num_slices ELSE 0

\* A next_epoch_id that repeats the epoch of the checkpoint.
next_epoch_id_repeats(checkpoint) ==
    IF checkpoint.present THEN checkpoint.epoch_id ELSE 0

\* OptionCheckpoint::next_epoch_id
next_epoch_id(checkpoint) ==
    IF checkpoint.present THEN checkpoint.epoch_id + 1 ELSE 0

NoOpIdentifier == <<>>

\* OptionCheckpoint::get_source_state
get_source_state(checkpoint, node_handle) ==
    IF checkpoint.present /\ node_handle \in DOMAIN checkpoint.source_states
    THEN checkpoint.source_states[node_handle]
    ELSE NoOpIdentifier

\* ----------------------------------------------------------- slice format

\* A read that counts the header among the remaining bytes.
read_source_states_with_header(source_states_len, data) ==
    IF Len(data) < source_states_len
    THEN Err(NotEnoughData(source_states_len, Len(data) + HeaderLen))
    ELSE Bind(bincode_deserialize(SubSeq(data, 1, source_states_len)),
              LAMBDA source_states :
                  Ok([source_states |-> source_states,
                      data |-> SubSeq(data, source_states_len + 1, Len(data))]))

\* read_record_store_slice_data after the header: the source states, and the
\* record data that follows them.
read_source_states(source_states_len, data) ==
    IF Len(data) < source_states_len
    THEN Err(NotEnoughData(source_states_len, Len(data)))
    ELSE Bind(bincode_deserialize(SubSeq(data, 1, source_states_len)),
              LAMBDA source_states :
                  Ok([source_states |-> source_states,
                      data |-> SubSeq(data, source_states_len + 1, Len(data))]))

\* CheckpointFactory::read_record_store_slice_data
read_record_store_slice_data(data) ==
    IF Len(data) < HeaderLen
    THEN Err(NotEnoughData(HeaderLen, Len(data)))
    ELSE read_source_states(from_le_bytes(SubSeq(data, 1, HeaderLen)),
                            SubSeq(data, HeaderLen + 1, Len(data)))

\* -------------------------------------------------------------- storage

\* The keys a list call with this prefix matches (the prefix is matched as a
\* string), in the order the storage returns them.
RECURSIVE SortKeys(_)
SortKeys(keys) ==
    IF keys = {} THEN <<>>
    ELSE LET first == CHOOSE k \in keys :
                          \A other \in keys \ {k} : LexLess(KeyString(k), KeyString(other))
         IN  <<first>> \o SortKeys(keys \ {first})

ListedKeys(st, prefix) ==
    SortKeys({k \in DOMAIN st : IsPrefix(KeyString(prefix), KeyString(k))})

NoToken == 0 - 1

NoFault == [list |-> 0, download |-> NoKey]

\* The page of the listing `all` from `start` to `end`.
PageOf(all, start, end, empty_tail) ==
    [objects |-> SubSeq(all, start + 1, end),
     continuation_token |->
         IF end < Len(all) \/ (empty_tail /\ start < Len(all)) THEN end ELSE NoToken]

PageFrom(all, start, page_size, empty_tail) ==
    PageOf(all, start,
           IF start + page_size < Len(all) THEN start + page_size ELSE Len(all),
           empty_tail)

\* Storage::list_objects: one page of at most page_size keys.  With empty_tail
\* the storage announces a continuation after the last key and then returns an
\* empty page.  The continuation token is the number of keys already returned.
list_objects(st, prefix, continuation_token, page_size, empty_tail) ==
    PageFrom(ListedKeys(st, prefix),
             IF continuation_token = NoToken THEN 0 ELSE continuation_token,
             page_size, empty_tail)

\* Storage::download_object
download_object(st, key, fault) ==
    IF key = fault.download THEN Err(StorageError)
    ELSE IF key \in DOMAIN st THEN Ok(st[key])
    ELSE Err(OtherError("NotFound"))

\* Option<Vec<u8>> of load_processor_data.
NoData == [some |-> FALSE, bytes |-> <<>>]

SomeData(bytes) == [some |-> TRUE, bytes |-> bytes]

\* A load that asks the storage whether a descriptor is present or not.
load_processor_data_always(checkpoint, st, node_handle, fault) ==
    [result |-> Bind(download_object(st, processor_key(checkpoint.processor_prefix,
                                                        node_handle), fault),
                     LAMBDA bytes : Ok(SomeData(bytes))),
     downloads |-> <<processor_key(checkpoint.processor_prefix, node_handle)>>]

\* A load that names the directory of the epoch by the number without padding.
load_processor_data_by_number(checkpoint, st, node_handle, fault) ==
    IF checkpoint.present
    THEN [result |->
              Bind(download_object(st,
                                   processor_key(processor_prefix(factory_prefix,
                                                                  Digits(checkpoint.epoch_id)),
                                                 node_handle),
                                   fault),
                   LAMBDA bytes : Ok(SomeData(bytes))),
          downloads |-> <<processor_key(processor_prefix(factory_prefix,
                                                         Digits(checkpoint.epoch_id)),
                                        node_handle)>>]
    ELSE [result |-> Ok(NoData), downloads |-> <<>>]

\* OptionCheckpoint::load_processor_data: what it returns, and the keys it
\* asks the storage for.
load_processor_data(checkpoint, st, node_handle, fault) ==
    IF checkpoint.present
    THEN [result |-> Bind(download_object(st, processor_key(checkpoint.processor_prefix,
                                                             node_handle), fault),
                          LAMBDA bytes : Ok(SomeData(bytes))),
          downloads |-> <<processor_key(checkpoint.processor_prefix, node_handle)>>]
    ELSE [result |-> Ok(NoData), downloads |-> <<>>]

\* ------------------------------------------------------------- recovery

\* read_record_store_slices, the page's last object: its key gives the epoch
\* id, its data the source states.
read_last_object(st, prefix, key, fault) ==
    Bind(MapErr(strip_prefix(key, record_store_prefix(prefix)),
                UnrecognizedCheckpoint(key)),
         LAMBDA object_name :
    Bind(MapErr(parse_u64(KeyString(object_name)), UnrecognizedCheckpoint(key)),
         LAMBDA epoch_id :
    Bind(download_object(st, key, fault),
         LAMBDA data :
    Bind(read_record_store_slice_data(data),
         LAMBDA slice :
             Ok([epoch_id |-> epoch_id,
                 source_states |-> slice.source_states,
                 processor_prefix |->
                     processor_prefix(prefix, KeyString(object_name))])))))

\* A count that keeps the objects of the last page only.
add_num_slices_last_page(last_checkpoint, n) == n

\* read_record_store_slices: num_slices of the checkpoint after a page of n
\* objects.
add_num_slices(last_checkpoint, n) ==
    IF last_checkpoint.present THEN last_checkpoint.num_slices + n ELSE n

\* read_record_store_slices: the checkpoint after a page.
update_last_checkpoint(st, prefix, objects, last_checkpoint, fault) ==
    IF objects = <<>> THEN Ok(last_checkpoint)
    ELSE Bind(read_last_object(st, prefix, Last(objects), fault),
              LAMBDA last :
                  Ok(SomeCheckpoint(add_num_slices(last_checkpoint, Len(objects)),
                                    last.processor_prefix,
                                    last.epoch_id,
                                    last.source_states)))

\* A loop body that leaves out an object it cannot read.
extend_with_object_skipping(st, key, record_store, fault) ==
    LET read == Bind(download_object(st, key, fault),
                     LAMBDA data :
                Bind(read_record_store_slice_data(data),
                     LAMBDA slice : deserialize_and_extend(record_store, slice.data)))
    IN  IF read.ok THEN read ELSE Ok(record_store)

\* read_record_store_slices, the body of the loop over a page's objects.
extend_with_object(st, key, record_store, fault) ==
    Bind(download_object(st, key, fault),
         LAMBDA data :
    Bind(read_record_store_slice_data(data),
         LAMBDA slice : deserialize_and_extend(record_store, slice.data)))

\* read_record_store_slices, the loop over a page's objects.
RECURSIVE extend_with_objects(_, _, _, _)
extend_with_objects(st, objects, record_store, fault) ==
    IF objects = <<>> THEN Ok(record_store)
    ELSE Bind(extend_with_object(st, Head(objects), record_store, fault),
              LAMBDA next : extend_with_objects(st, Tail(objects), next, fault))

\* read_record_store_slices, the loop over the pages.
RECURSIVE read_pages(_, _, _, _, _, _, _, _)

\* One turn of the loop, with the page the storage returned.
read_page(st, prefix, page, page_no, record_store, last_checkpoint, paging, fault) ==
    Bind(update_last_checkpoint(st, prefix, page.objects, last_checkpoint, fault),
         LAMBDA checkpoint :
    Bind(extend_with_objects(st, page.objects, record_store, fault),
         LAMBDA store :
             IF page.continuation_token = NoToken
             THEN Ok([record_store |-> store, checkpoint |-> checkpoint])
             ELSE read_pages(st, prefix, page.continuation_token, page_no + 1,
                             store, checkpoint, paging, fault)))

read_pages(st, prefix, continuation_token, page_no, record_store, last_checkpoint, paging, fault) ==
    IF fault.list = page_no THEN Err(StorageError)
    ELSE read_page(st, prefix,
                   list_objects(st, record_store_prefix(prefix), continuation_token,
                                paging.page_size, paging.empty_tail),
                   page_no, record_store, last_checkpoint, paging, fault)

read_record_store_slices(st, prefix, paging, fault) ==
    read_pages(st, prefix, NoToken, 1, EmptyRecordStore, NoCheckpoint, paging, fault)

\* A factory that starts its commit state at index 0 whatever it recovered.
initial_next_record_index_zero(record_store) == 0

\* CheckpointFactory::new: the commit state of the new factory.
initial_next_record_index(record_store) == num_records(record_store)

\* CheckpointFactory::new: the factory's record store and commit state, and the
\* checkpoint it returns.
CheckpointFactory_new(st, paging, fault) ==
    Bind(read_record_store_slices(st, factory_prefix, paging, fault),
         LAMBDA read :
             Ok([record_store |-> read.record_store,
                 checkpoint |-> read.checkpoint,
                 next_record_index |-> initial_next_record_index(read.record_store)]))

\* ---------------------------------------------------------- upload queue

CreateUpload(key) == [kind |-> "CreateUpload", key |-> key, data |-> <<>>]

UploadChunk(key, data) == [kind |-> "UploadChunk", key |-> key, data |-> data]

CompleteUpload(key) == [kind |-> "CompleteUpload", key |-> key, data |-> <<>>]

\* A commit that sends the source states before their length.
write_record_store_slice_data_swapped(key, source_states, data) ==
    <<CreateUpload(key),
      UploadChunk(key, bincode_serialize(source_states)),
      UploadChunk(key, to_le_bytes(Len(bincode_serialize(source_states)), HeaderLen)),
      UploadChunk(key, data),
      CompleteUpload(key)>>

\* A commit that completes the upload before it sends the record data.
write_record_store_slice_data_early(key, source_states, data) ==
    <<CreateUpload(key),
      UploadChunk(key, to_le_bytes(Len(bincode_serialize(source_states)), HeaderLen)),
      UploadChunk(key, bincode_serialize(source_states)),
      CompleteUpload(key),
      UploadChunk(key, data)>>

\* A commit that uploads its slice a second time.
write_record_store_slice_data_twice(key, source_states, data) ==
    <<CreateUpload(key),
      UploadChunk(key, to_le_bytes(Len(bincode_serialize(source_states)), HeaderLen)),
      UploadChunk(key, bincode_serialize(source_states)),
      UploadChunk(key, data),
      CompleteUpload(key),
      CreateUpload(key),
      UploadChunk(key, to_le_bytes(Len(bincode_serialize(source_states)), HeaderLen)),
      UploadChunk(key, bincode_serialize(source_states)),
      UploadChunk(key, data),
      CompleteUpload(key)>>

\* CheckpointFactory::write_record_store_slice_data: the commands it sends, in
\* the order it sends them.
write_record_store_slice_data(key, source_states, data) ==
    LET bytes == bincode_serialize(source_states)
    IN  <<CreateUpload(key),
          UploadChunk(key, to_le_bytes(Len(bytes), HeaderLen)),
          UploadChunk(key, bytes),
          UploadChunk(key, data),
          CompleteUpload(key)>>

\* A commit that leaves the index where it was.
advance_next_record_index_stays(index, num_records_serialized) == index

\* CheckpointFactory::write_record_store_slice: the index after the slice.
advance_next_record_index(index, num_records_serialized) ==
    index + num_records_serialized

\* A commit that returns the send error under another name.
send_error_unmapped == OtherError("SendError")

\* CheckpointFactory::write_record_store_slice: what it returns when a send
\* fails.
send_error_to_execution_error == CheckpointWriterThreadPanicked

\* Object: the commands a processor object sends: Object::new, write, close.
object_commands(key, data) ==
    <<CreateUpload(key), UploadChunk(key, data), CompleteUpload(key)>>

\* The opaque bytes the processor of handle h writes at an epoch.
ObjectData(epoch_id, h) == <<epoch_id, h>>

\* ------------------------------------------------------------------ state

VARIABLES
    storage,            \* the visible objects: key -> bytes
    factory,            \* "up", "dropped" or "failed" (new returned an error)
    new_error,          \* the error of the last CheckpointFactory::new
    checkpoint,         \* the OptionCheckpoint new returned
    record_store,       \* factory.record_store: the records by index
    next_record_index,  \* factory.state.next_record_index
    mutex,              \* the writer holding factory.state, or NoWriter
    writers,            \* the CheckpointWriters of this factory, by epoch id
    next_epoch,         \* the next epoch id the pipeline hands out
    queue,              \* the commands sent and not yet received
    worker,             \* the upload worker: "running", "stopped", "dead"
    uploads,            \* the worker's open multipart uploads: key -> chunks
    objects,            \* the processor objects of this factory, by key
    log,                \* the errors logged by dropped writers
    faults,             \* failures of the worker so far
    damage,             \* objects changed from outside so far
    hist,               \* history: what each epoch's writer committed
    applied,            \* history: the commands the worker applied, by key
    slices,             \* history: the ranges this factory serialised
    recovered           \* history: what the last new() read and returned, and
                        \* whether every commit until then was there, in order

vars ==
    <<storage, factory, new_error, checkpoint, record_store, next_record_index,
      mutex, writers, next_epoch, queue, worker, uploads, objects, log, faults, damage, hist, applied, slices, recovered>>

NoWriter == 0 - 1

NoError == OtherError("none")

EmptyMap == <<>>

Put(map, k, v) == (k :> v) @@ map

Remove(map, k) == [x \in DOMAIN map \ {k} |-> map[x]]

Pagings == [page_size : 1..MaxPage, empty_tail : BOOLEAN]

Init ==
    /\ storage = EmptyMap
    /\ factory = "up"
    /\ new_error = NoError
    /\ checkpoint = NoCheckpoint
    /\ record_store = EmptyRecordStore
    /\ next_record_index = 0
    /\ mutex = NoWriter
    /\ writers = EmptyMap
    /\ next_epoch = 0
    /\ queue = <<>>
    /\ worker = "running"
    /\ uploads = EmptyMap
    /\ objects = EmptyMap
    /\ log = {}
    /\ faults = 0
    /\ damage = 0
    /\ hist = EmptyMap
    /\ applied = EmptyMap
    /\ slices = <<>>
    /\ recovered = [storage |-> EmptyMap, record_store |-> EmptyRecordStore,
                    intact |-> TRUE]

\* ---------------------------------------------------------------- actions

\* Bound on the epoch ids skipped between two writers.
MaxGap == 1

\* CheckpointWriter::new
CheckpointWriter_new(epoch_id, source_states) ==
    [pc |-> "open",
     record_store_key |-> record_store_key(factory_prefix, epoch_id),
     processor_prefix |-> processor_prefix(factory_prefix, format_epoch_id(epoch_id)),
     source_states |-> source_states,
     data |-> <<>>,
     sent |-> <<>>,
     result |-> Ok("pending")]

\* Every processor object of epoch e has sent its last command, or failed.
ObjectsFinished(e) ==
    \A key \in DOMAIN objects :
        objects[key].epoch_id = e =>
            objects[key].failed \/ objects[key].sent = Len(objects[key].commands)

LiveWriters == {e \in DOMAIN writers : writers[e].pc # "done"}

\* A processor inserts a record: record_store().create_ref(record).  Records are
\* named in the order of their first insertion.
CreateRef(record) ==
    /\ factory = "up"
    /\ record <= Len(record_store) + 1
    /\ record_store' = create_ref(record_store, record)
    /\ UNCHANGED <<storage, factory, new_error, checkpoint, next_record_index, mutex,
                   writers, next_epoch, queue, worker, uploads, objects, log, faults, damage, hist, applied, slices, recovered>>

\* The pipeline closes an epoch: a writer for it, with the frozen source states.
NewWriter(epoch_id, source_states) ==
    /\ factory = "up"
    /\ epoch_id >= next_epoch
    /\ epoch_id <= next_epoch + MaxGap
    /\ epoch_id <= MaxEpoch
    /\ Cardinality(LiveWriters) < MaxWriters
    /\ writers' = Put(writers, epoch_id, CheckpointWriter_new(epoch_id, source_states))
    /\ next_epoch' = epoch_id + 1
    /\ UNCHANGED <<storage, factory, new_error, checkpoint, record_store,
                   next_record_index, mutex, queue, worker, uploads, objects, log,
                   faults, damage, hist, applied, slices, recovered>>

\* Epoch ids around the lengths of their decimal forms, up to the largest the
\* model computes with.
EpochSamples == {9, 10, 100, 2147483646}

\* The pipeline closes an epoch of a long run: a writer for one of the sampled
\* epoch ids.
NewWriterAt(epoch_id, source_states) ==
    /\ factory = "up"
    /\ epoch_id >= next_epoch
    /\ Cardinality(LiveWriters) < MaxWriters
    /\ writers' = Put(writers, epoch_id, CheckpointWriter_new(epoch_id, source_states))
    /\ next_epoch' = epoch_id + 1
    /\ UNCHANGED <<storage, factory, new_error, checkpoint, record_store,
                   next_record_index, mutex, queue, worker, uploads, objects, log,
                   faults, damage, hist, applied, slices, recovered>>

\* A guard that lives to the end of write_record_store_slice.
keep_state(holder) == holder

\* drop(state): the guard of the mutex is dropped before the slice is sent.
drop_state(holder) == NoWriter

\* Drop of a writer, write_record_store_slice: self.state.lock().  The
\* processors have finalised the objects of the epoch before.
DropLock(e) ==
    /\ e \in DOMAIN writers
    /\ writers[e].pc = "open"
    /\ ObjectsFinished(e)
    /\ mutex = NoWriter
    /\ mutex' = e
    /\ writers' = [writers EXCEPT ![e].pc = "locked"]
    /\ UNCHANGED <<storage, factory, new_error, checkpoint, record_store,
                   next_record_index, next_epoch, queue, worker, uploads, objects, log,
                   faults, damage, hist, applied, slices, recovered>>

\* write_record_store_slice under the lock: serialize_slice, advance the index,
\* drop(state).
DropSerialize(e) ==
    /\ e \in DOMAIN writers
    /\ writers[e].pc = "locked"
    /\ mutex = e
    /\ LET slice == serialize_slice(record_store, next_record_index)
       IN  /\ next_record_index' =
                  advance_next_record_index(next_record_index,
                                            slice.num_records_serialized)
           /\ writers' = [writers EXCEPT ![e].pc = "send", ![e].data = slice.data]
           /\ hist' = Put(hist, e,
                          [source_states |-> writers[e].source_states,
                           after |-> DOMAIN hist \ {e},
                           from_index |-> next_record_index,
                           records |-> SubSeq(record_store, next_record_index + 1,
                                              Len(record_store))])
           /\ slices' = Append(slices,
                               [epoch_id |-> e,
                                from_index |-> next_record_index,
                                num_records |-> slice.num_records_serialized,
                                observed |-> Len(record_store)])
    /\ mutex' = drop_state(mutex)
    /\ UNCHANGED <<storage, factory, new_error, checkpoint, record_store, next_epoch,
                   queue, worker, uploads, objects, log, faults, damage,
                   applied, recovered>>

\* write_record_store_slice_data: the next queue send.  A send fails when the
\* worker is gone; it waits while the queue is full.
DropSend(e) ==
    /\ e \in DOMAIN writers
    /\ writers[e].pc = "send"
    /\ LET w == writers[e]
           commands == write_record_store_slice_data(w.record_store_key,
                                                     w.source_states, w.data)
           command == commands[Len(w.sent) + 1]
           last == Len(w.sent) + 1 = Len(commands)
       IN  IF worker # "running"
           THEN /\ writers' = [writers EXCEPT
                                   ![e].pc = "done",
                                   ![e].result = Err(send_error_to_execution_error)]
                /\ log' = log \cup {[epoch_id |-> e,
                                     error |-> send_error_to_execution_error]}
                /\ UNCHANGED queue
           ELSE /\ Len(queue) < QueueCapacity
                /\ queue' = Append(queue, command)
                /\ writers' = [writers EXCEPT
                                   ![e].sent = Append(w.sent, command),
                                   ![e].pc = IF last THEN "done" ELSE "send",
                                   ![e].result = IF last THEN Ok("done") ELSE @]
                /\ UNCHANGED log
    /\ UNCHANGED <<storage, factory, new_error, checkpoint, record_store,
                   next_record_index, mutex, next_epoch, worker, uploads, objects,
                   faults, damage, hist, applied, slices, recovered>>

\* create_processor_object: Object::new sends CreateUpload for the key.
ObjectNew(e, h) ==
    /\ e \in DOMAIN writers
    /\ writers[e].pc = "open"
    /\ worker = "running"
    /\ Len(queue) < QueueCapacity
    /\ Cardinality(DOMAIN objects) < MaxObjects
    /\ LET key == processor_key(writers[e].processor_prefix, h)
           commands == object_commands(key, ObjectData(e, h))
       IN  /\ key \notin DOMAIN objects
           /\ queue' = Append(queue, commands[1])
           /\ objects' = Put(objects, key,
                             [epoch_id |-> e, commands |-> commands, sent |-> 1,
                              failed |-> FALSE])
    /\ UNCHANGED <<storage, factory, new_error, checkpoint, record_store,
                   next_record_index, mutex, writers, next_epoch, worker, uploads, log,
                   faults, damage, hist, applied, slices, recovered>>

\* The processor writes its state to the object, then closes it.
ObjectSend(key) ==
    /\ key \in DOMAIN objects
    /\ ~objects[key].failed
    /\ objects[key].sent < Len(objects[key].commands)
    /\ factory = "up"
    /\ IF worker # "running"
       THEN /\ objects' = [objects EXCEPT ![key].failed = TRUE]
            /\ UNCHANGED queue
       ELSE /\ Len(queue) < QueueCapacity
            /\ queue' = Append(queue, objects[key].commands[objects[key].sent + 1])
            /\ objects' = [objects EXCEPT ![key].sent = @ + 1]
    /\ UNCHANGED <<storage, factory, new_error, checkpoint, record_store,
                   next_record_index, mutex, writers, next_epoch, worker, uploads, log,
                   faults, damage, hist, applied, slices, recovered>>

\* The worker applies a command to the storage.  ok: the storage call succeeds.
\* A failure is logged and the upload of the key is given up.
apply_command(command, ok, ups, st) ==
    LET known == command.kind = "CreateUpload" \/ command.key \in DOMAIN ups
        done == ok /\ known
    IN  [ok |-> done,
         uploads |->
             IF command.kind = "CreateUpload" /\ done THEN Put(ups, command.key, <<>>)
             ELSE IF command.kind = "UploadChunk" /\ done
             THEN Put(ups, command.key, Append(ups[command.key], command.data))
             ELSE Remove(ups, command.key),
         storage |->
             IF command.kind = "CompleteUpload" /\ done
             THEN Put(st, command.key, Concat(ups[command.key]))
             ELSE st]

Applied(key) == IF key \in DOMAIN applied THEN applied[key] ELSE <<>>

WorkerStep(ok) ==
    /\ worker = "running"
    /\ queue # <<>>
    /\ LET command == Head(queue)
           after == apply_command(command, ok, uploads, storage)
       IN  /\ uploads' = after.uploads
           /\ storage' = after.storage
           /\ applied' = Put(applied, command.key,
                             Append(Applied(command.key),
                                    [command |-> command, ok |-> after.ok]))
    /\ queue' = Tail(queue)

\* The worker receives a command and applies it.
WorkerApply ==
    /\ WorkerStep(TRUE)
    /\ UNCHANGED <<factory, new_error, checkpoint, record_store, next_record_index,
                   mutex, writers, next_epoch, worker, objects, log, faults,
                   damage, hist, slices, recovered>>

\* The worker receives a command and the storage call fails.
WorkerStorageError ==
    /\ faults < MaxFaults
    /\ faults' = faults + 1
    /\ WorkerStep(FALSE)
    /\ UNCHANGED <<factory, new_error, checkpoint, record_store, next_record_index,
                   mutex, writers, next_epoch, worker, objects, log, damage,
                   hist, slices, recovered>>

\* The worker task dies while the factory lives: the queue is closed.
WorkerDie ==
    /\ worker = "running"
    /\ factory = "up"
    /\ faults < MaxFaults
    /\ faults' = faults + 1
    /\ worker' = "dead"
    /\ queue' = <<>>
    /\ uploads' = EmptyMap
    /\ UNCHANGED <<storage, factory, new_error, checkpoint, record_store,
                   next_record_index, mutex, writers, next_epoch, objects, log,
                   damage, hist, applied, slices, recovered>>

\* A worker that ends as soon as every sender is gone.
WorkerExitEarly ==
    /\ worker = "running"
    /\ factory # "up"
    /\ worker' = "stopped"
    /\ queue' = <<>>
    /\ uploads' = EmptyMap
    /\ UNCHANGED <<storage, factory, new_error, checkpoint, record_store,
                   next_record_index, mutex, writers, next_epoch, objects, log,
                   faults, damage, hist, applied, slices, recovered>>

\* Every sender is gone and the queue is drained: the worker ends (join).
WorkerExit ==
    /\ worker = "running"
    /\ factory # "up"
    /\ queue = <<>>
    /\ worker' = "stopped"
    /\ uploads' = EmptyMap
    /\ UNCHANGED <<storage, factory, new_error, checkpoint, record_store,
                   next_record_index, mutex, writers, next_epoch, queue, objects, log,
                   faults, damage, hist, applied, slices, recovered>>

\* The pipeline ends: the last reference to the factory is dropped.
DropFactory ==
    /\ factory = "up"
    /\ LiveWriters = {}
    /\ \A e \in DOMAIN writers : ObjectsFinished(e)
    /\ factory' = "dropped"
    /\ record_store' = EmptyRecordStore
    /\ next_record_index' = 0
    /\ checkpoint' = NoCheckpoint
    /\ UNCHANGED <<storage, new_error, mutex, writers, next_epoch, queue, worker,
                   uploads, objects, log, faults, damage, hist, applied,
                   slices, recovered>>

\* The process is killed: the factory, its writers, the queue and the worker
\* with its open uploads are gone.
Crash ==
    /\ factory = "up" \/ worker = "running"
    /\ faults < MaxFaults
    /\ faults' = faults + 1
    /\ factory' = "dropped"
    /\ worker' = "dead"
    /\ record_store' = EmptyRecordStore
    /\ next_record_index' = 0
    /\ checkpoint' = NoCheckpoint
    /\ mutex' = NoWriter
    /\ writers' = EmptyMap
    /\ objects' = EmptyMap
    /\ queue' = <<>>
    /\ uploads' = EmptyMap
    /\ log' = {}
    /\ applied' = EmptyMap
    /\ slices' = <<>>
    /\ UNCHANGED <<storage, new_error, next_epoch, damage, hist,
                   recovered>>

\* The storage calls of a recovery that may fail: a list call, or a download.
FaultsOf(st) ==
    {[list |-> i, download |-> NoKey] : i \in 1..2}
        \cup {[list |-> 0, download |-> k] : k \in DOMAIN st}

\* History: every commit so far is in the storage, and the commits happened in
\* the order of their epoch ids.
Intact(h, st) ==
    /\ \A e \in DOMAIN h : record_store_key(factory_prefix, e) \in DOMAIN st
    /\ \A e1, e2 \in DOMAIN h : e1 < e2 => e1 \in h[e2].after

\* CheckpointFactory::new over the directory.
NewFactory(paging, fault) ==
    /\ factory # "up"
    /\ worker # "running"
    /\ IF fault = NoFault THEN UNCHANGED faults
       ELSE faults < MaxFaults /\ faults' = faults + 1
    /\ \E new \in {CheckpointFactory_new(storage, paging, fault)} :
           IF new.ok
           THEN /\ factory' = "up"
                /\ new_error' = NoError
                /\ checkpoint' = new.val.checkpoint
                /\ record_store' = new.val.record_store
                /\ next_record_index' = new.val.next_record_index
                /\ next_epoch' = next_epoch_id(new.val.checkpoint)
                /\ worker' = "running"
                /\ recovered' = [storage |-> storage,
                                 record_store |-> new.val.record_store,
                                 intact |-> recovered.intact /\ Intact(hist, storage)]
           ELSE /\ factory' = "failed"
                /\ new_error' = new.err
                /\ checkpoint' = NoCheckpoint
                /\ record_store' = EmptyRecordStore
                /\ next_record_index' = 0
                /\ UNCHANGED <<next_epoch, worker, recovered>>
    /\ mutex' = NoWriter
    /\ writers' = EmptyMap
    /\ objects' = EmptyMap
    /\ queue' = <<>>
    /\ uploads' = EmptyMap
    /\ log' = {}
    /\ applied' = EmptyMap
    /\ slices' = <<>>
    /\ UNCHANGED <<storage, damage, hist>>

\* ---------------------------------------------------------------- damage

\* Names under record_store that are no epoch ids: ".x" sorts before every
\* epoch id, "x" after.
ForeignNames == {<<46, 120>>, <<120>>}

\* Keys that others may leave in the directory: a foreign name under
\* record_store, and an epoch id under "record_store_b", which the string
\* prefix of the list call matches as well.
ForeignKeys ==
    {Append(record_store_prefix(factory_prefix), name) : name \in ForeignNames}
        \cup {<<factory_prefix[1], RecordStoreDir \o <<95, 98>>, format_epoch_id(0)>>}

\* What a planted object holds: a well-formed slice of one record, or bytes
\* that are no slice.
PlantedContents ==
    {Concat(<<to_le_bytes(1, HeaderLen), <<0>>, <<1, 1>>>>), <<1, 2, 3>>}

\* The header claims 999 bytes of source states and 10 bytes follow.
Claims999 == to_le_bytes(999, HeaderLen) \o Repeat(0, 10)

\* What a damaged slice holds: the header claiming too much, the slice cut
\* after its header, the slice without its last byte, or less than a header.
DamagedContents(data) ==
    {Claims999,
     Take(data, HeaderLen),
     Take(data, Len(data) - 1),
     Take(data, 3)}

SliceKeys(st) ==
    {k \in DOMAIN st : IsPrefix(record_store_prefix(factory_prefix), k)}

\* While no factory runs, an object under record_store is damaged.
CorruptObject(key, data) ==
    /\ factory # "up"
    /\ worker # "running"
    /\ damage < MaxDamage
    /\ damage' = damage + 1
    /\ key \in SliceKeys(storage)
    /\ data # storage[key]
    /\ storage' = Put(storage, key, data)
    /\ UNCHANGED <<factory, new_error, checkpoint, record_store, next_record_index,
                   mutex, writers, next_epoch, queue, worker, uploads, objects, log,
                   faults, hist, applied, slices, recovered>>

\* While no factory runs, a foreign object appears in the directory.
PlantObject(key, data) ==
    /\ factory # "up"
    /\ worker # "running"
    /\ damage < MaxDamage
    /\ damage' = damage + 1
    /\ key \notin DOMAIN storage
    /\ storage' = Put(storage, key, data)
    /\ UNCHANGED <<factory, new_error, checkpoint, record_store, next_record_index,
                   mutex, writers, next_epoch, queue, worker, uploads, objects, log,
                   faults, hist, applied, slices, recovered>>

\* ------------------------------------------------------- specifications

\* The pipeline, the writers, the worker and the restart of the factory.
Program ==
    \/ \E record \in Records : CreateRef(record)
    \/ \E epoch_id \in 0..MaxEpoch : \E source_states \in SourceStatesAt(epoch_id) :
           NewWriter(epoch_id, source_states)
    \/ \E e \in DOMAIN writers : DropLock(e)
    \/ \E e \in DOMAIN writers : DropSerialize(e)
    \/ \E e \in DOMAIN writers : DropSend(e)
    \/ WorkerApply
    \/ WorkerExit
    \/ DropFactory
    \/ \E paging \in Pagings : NewFactory(paging, NoFault)

\* The processors and their objects.
Processors ==
    \/ \E e \in DOMAIN writers, h \in ProcessorHandles : ObjectNew(e, h)
    \/ \E key \in DOMAIN objects : ObjectSend(key)

\* What fails: a storage call, the worker, the process.
Failures ==
    \/ WorkerStorageError
    \/ WorkerDie
    \/ Crash
    \/ \E paging \in Pagings, fault \in FaultsOf(storage) : NewFactory(paging, fault)

\* What others do to the directory while no factory runs.
Damage ==
    \/ \E key \in SliceKeys(storage) : \E data \in DamagedContents(storage[key]) :
           CorruptObject(key, data)
    \/ \E key \in ForeignKeys, data \in PlantedContents : PlantObject(key, data)

Next == Program \/ Processors \/ Failures

Spec == Init /\ [][Next]_vars

\* The program and its failures, without processor objects.
NextFailures == Program \/ Failures

SpecFailures == Init /\ [][NextFailures]_vars

\* The program with processor objects, when nothing fails.
NextProcessors == Program \/ Processors

SpecProcessors == Init /\ [][NextProcessors]_vars

\* The program over a directory that others damage between two factories.
NextDamaged == Program \/ Damage

SpecDamaged == Init /\ [][NextDamaged]_vars

\* The program over a long run: writers of far apart epochs, no records.
NextKeys ==
    \/ \E epoch_id \in EpochSamples : \E source_states \in SourceStatesAt(epoch_id) :
           NewWriterAt(epoch_id, source_states)
    \/ \E e \in DOMAIN writers : DropLock(e)
    \/ \E e \in DOMAIN writers : DropSerialize(e)
    \/ \E e \in DOMAIN writers : DropSend(e)
    \/ WorkerApply
    \/ WorkerExit
    \/ DropFactory
    \/ \E paging \in Pagings : NewFactory(paging, NoFault)

SpecKeys == Init /\ [][NextKeys]_vars

\* One run of a factory from its start to the end of its worker: writers and
\* processors that send, a worker that may die, no records.
NextFair ==
    \/ \E epoch_id \in 0..MaxEpoch : \E source_states \in SourceStatesAt(epoch_id) :
           NewWriter(epoch_id, source_states)
    \/ \E e \in DOMAIN writers : DropLock(e)
    \/ \E e \in DOMAIN writers : DropSerialize(e)
    \/ \E e \in DOMAIN writers : DropSend(e)
    \/ \E e \in DOMAIN writers, h \in ProcessorHandles : ObjectNew(e, h)
    \/ \E key \in DOMAIN objects : ObjectSend(key)
    \/ WorkerApply
    \/ WorkerDie
    \/ WorkerExit
    \/ DropFactory

\* The scheduling: the worker task is polled while there is a command and when
\* the queue is closed, a thread
\* that waits for the mutex or for room in the queue runs once it can, and a
\* dropped writer's thread and a processor's thread go on.
Fairness ==
    /\ WF_vars(WorkerApply)
    /\ WF_vars(WorkerExit)
    /\ \A e \in 0..MaxEpoch :
           /\ WF_vars(DropLock(e))
           /\ WF_vars(DropSerialize(e))
           /\ SF_vars(DropSend(e))
    /\ \A e \in 0..MaxEpoch, h \in ProcessorHandles :
           SF_vars(ObjectSend(processor_key(processor_prefix(factory_prefix,
                                                             format_epoch_id(e)), h)))

SpecFair == Init /\ [][NextFair]_vars /\ Fairness

\* The program with storage calls of the worker that fail.
NextUploads == Program \/ WorkerStorageError

SpecUploads == Init /\ [][NextUploads]_vars

\* --------------------------------------------------------------- properties

slice_key(e) == record_store_key(factory_prefix, e)

\* The commit of epoch e went through: the writer sent its five commands and
\* the worker applied each of them.
CommitSucceeded(e) ==
    /\ e \in DOMAIN writers
    /\ writers[e].result = Ok("done")
    /\ Len(Applied(slice_key(e))) = 5
    /\ \A i \in 1..5 : Applied(slice_key(e))[i].ok

\* The factory is dropped and the upload worker has been joined.
Joined == factory = "dropped" /\ worker = "stopped"

\* The epochs of the history whose slice is in the storage st.
EpochsIn(st) == {e \in DOMAIN hist : slice_key(e) \in DOMAIN st}

\* What a fresh factory over the storage returns for the commit of epoch e with
\* the source states m.
ReturnsCommit(new, e, m, st) ==
    /\ new.ok
    /\ new.val.checkpoint.present
    /\ new.val.checkpoint.epoch_id = e
    /\ next_epoch_id(new.val.checkpoint) = e + 1
    /\ new.val.checkpoint.source_states = m
    /\ \A h \in DOMAIN m : get_source_state(new.val.checkpoint, h) = m[h]
    /\ num_slices(new.val.checkpoint) = Cardinality(SliceKeys(st))

\* C1: after a successful commit at epoch E with source states M, with the
\* writer dropped, the factory dropped and the worker joined, a fresh factory
\* over the directory returns a present descriptor with epoch_id = E,
\* next_epoch_id() = E + 1, source_states = M, and num_slices equal to the number
\* of slice objects in the storage (1 when the directory was empty before).
\* The factory that is up after new() holds that descriptor.
C1_FreshFactoryReturnsCommit ==
    /\ Joined =>
           \A e \in DOMAIN writers :
               (CommitSucceeded(e)
                    /\ \A later \in DOMAIN writers : CommitSucceeded(later) => later <= e)
               => \A paging \in Pagings :
                      \A new \in {CheckpointFactory_new(storage, paging, NoFault)} :
                          /\ ReturnsCommit(new, e, writers[e].source_states, storage)
                          /\ (SliceKeys(recovered.storage) = {}
                                  /\ \A other \in DOMAIN writers \ {e} :
                                         ~CommitSucceeded(other))
                             => num_slices(new.val.checkpoint) = 1
    /\ (factory = "up" /\ EpochsIn(recovered.storage) # {}) =>
           \A e \in {Max(EpochsIn(recovered.storage))} :
               /\ checkpoint.present
               /\ checkpoint.epoch_id = e
               /\ next_epoch_id(checkpoint) = e + 1
               /\ \A h \in DOMAIN hist[e].source_states :
                      get_source_state(checkpoint, h) = hist[e].source_states[h]
               /\ num_slices(checkpoint) = Cardinality(SliceKeys(recovered.storage))

\* A fresh factory is up over a directory that holds the one commit of epoch 1.
C1_Witness ==
    /\ factory = "up"
    /\ writers = EmptyMap
    /\ EpochsIn(recovered.storage) = {1}
    /\ checkpoint.present
    /\ checkpoint.epoch_id = 1
    /\ next_epoch_id(checkpoint) = 2
    /\ checkpoint.source_states = hist[1].source_states
    /\ num_slices(checkpoint) = 1

\* The records of the commits, in the order of the epoch ids.
RECURSIVE CommittedRecords(_)
CommittedRecords(epochs) ==
    IF epochs = {} THEN <<>>
    ELSE CommittedRecords(epochs \ {Max(epochs)}) \o hist[Max(epochs)].records

\* C2: record references survive restarts.  After successful commits at
\* increasing epoch ids and restarts, the recovered record store holds exactly
\* the committed records, each at the index it had when it was committed; the
\* factory starts with next_record_index at the recovered num_records, so the
\* commits after the restart serialise only records inserted after it.
C2_ReferencesSurviveRestarts ==
    (factory = "up" /\ recovered.intact) =>
        /\ recovered.record_store = CommittedRecords(EpochsIn(recovered.storage))
        /\ \A e \in EpochsIn(recovered.storage) :
               \A j \in 1..Len(hist[e].records) :
                   /\ hist[e].from_index + j <= num_records(recovered.record_store)
                   /\ recovered.record_store[hist[e].from_index + j] = hist[e].records[j]
        /\ num_slices(checkpoint) = Cardinality(EpochsIn(recovered.storage))
        /\ num_records(recovered.record_store) <= num_records(record_store)
        /\ SubSeq(record_store, 1, num_records(recovered.record_store))
               = recovered.record_store
        /\ next_record_index >= num_records(recovered.record_store)
        /\ \A i \in 1..Len(slices) :
               /\ slices[i].from_index >= num_records(recovered.record_store)
               /\ i = 1 => slices[i].from_index = num_records(recovered.record_store)

\* Record 1 was committed at epoch 0 and record 2 at epoch 1, after a restart
\* in between or not; the factory recovered them at their indices.
C2_Witness ==
    /\ factory = "up"
    /\ recovered.intact
    /\ EpochsIn(recovered.storage) = {0, 1}
    /\ hist[0].records = <<1>>
    /\ hist[1].records = <<2>>
    /\ hist[1].from_index = 1
    /\ recovered.record_store = <<1, 2>>
    /\ num_slices(checkpoint) = 2
    /\ next_record_index = 2

\* The index ranges the write_record_store_slice calls of this factory
\* serialised start where the recovered store ends, each starts where the one
\* before ends, and the last ends at the record count its commit observed.
RangesContiguous ==
    /\ \A i \in 1..Len(slices) :
           /\ slices[i].from_index =
                  IF i = 1 THEN num_records(recovered.record_store)
                  ELSE slices[i - 1].from_index + slices[i - 1].num_records
           /\ slices[i].num_records >= 0
           /\ slices[i].from_index + slices[i].num_records = slices[i].observed
    /\ \A i, j \in 1..Len(slices) :
           i < j => slices[i].from_index + slices[i].num_records <= slices[j].from_index
    /\ factory = "up" =>
           next_record_index =
               IF slices = <<>> THEN num_records(recovered.record_store)
               ELSE Last(slices).observed

\* C3: under every interleaving of create_ref calls and writer drops, two
\* writers dropped concurrently included, next_record_index never decreases, and
\* the index ranges of successive write_record_store_slice calls are pairwise
\* disjoint and contiguous, their union reaching from the start of the factory's
\* own records to the record count the last commit observed.
C3_RangesDisjointContiguous ==
    /\ []RangesContiguous
    /\ [][(factory = "up" /\ factory' = "up") => next_record_index' >= next_record_index]_vars

\* Two writers were dropped concurrently: the writer of epoch 1 took the first
\* range while the writer of epoch 0 was open, and each serialised one record.
C3_Witness ==
    /\ Len(slices) = 2
    /\ slices[1].epoch_id = 1
    /\ slices[2].epoch_id = 0
    /\ slices[1].num_records = 1
    /\ slices[2].num_records = 1
    /\ slices[2].from_index = 1
    /\ next_record_index = 2

\* The bytes of the slice of a writer: the length of the serialised source
\* states in 8 bytes, the serialised source states, the record data.
SliceBytes(w) ==
    Concat(<<to_le_bytes(Len(bincode_serialize(w.source_states)), HeaderLen),
             bincode_serialize(w.source_states),
             w.data>>)

\* The worker applied the upload of the slice of writer w in full: CreateUpload,
\* the three chunks and CompleteUpload, each with success.
UploadedInFull(w) ==
    /\ Len(Applied(w.record_store_key)) = 5
    /\ \A i \in 1..5 : Applied(w.record_store_key)[i].ok
    /\ Applied(w.record_store_key)[1].command.kind = "CreateUpload"
    /\ \A i \in 2..4 : Applied(w.record_store_key)[i].command.kind = "UploadChunk"
    /\ Applied(w.record_store_key)[5].command.kind = "CompleteUpload"
    /\ Concat(<<Applied(w.record_store_key)[2].command.data,
                Applied(w.record_store_key)[3].command.data,
                Applied(w.record_store_key)[4].command.data>>) = SliceBytes(w)

\* The keys a recovery of the storage lists.
Listed(st) == Range(ListedKeys(st, record_store_prefix(factory_prefix)))

\* A slice of this factory is visible iff its upload was applied in full, and
\* then it holds all its bytes.
VisibleIffComplete ==
    \A e \in DOMAIN writers :
        /\ writers[e].record_store_key \in Listed(storage) <=> UploadedInFull(writers[e])
        /\ writers[e].record_store_key \in DOMAIN storage <=> UploadedInFull(writers[e])
        /\ writers[e].record_store_key \in DOMAIN storage =>
               storage[writers[e].record_store_key] = SliceBytes(writers[e])

\* A step keeps every visible object as it is, and an object becomes visible
\* only by the CompleteUpload that ends its upload.
VisibleStaysVisible ==
    /\ \A k \in DOMAIN storage : k \in DOMAIN storage' /\ storage'[k] = storage[k]
    /\ \A k \in DOMAIN storage' \ DOMAIN storage :
           /\ worker = "running"
           /\ queue # <<>>
           /\ Head(queue) = CompleteUpload(k)
           /\ \E e \in DOMAIN writers :
                  writers[e].record_store_key = k /\ storage'[k] = SliceBytes(writers[e])

\* C4: commit atomicity.  A slice object is visible in the storage, in the list
\* results and so in recovery, if and only if all of its chunks were uploaded
\* and its CompleteUpload succeeded; when the worker stops or a step of the
\* upload fails before, the slice is absent, and every slice completed before
\* stays present and unchanged.
C4_CommitAtomicity ==
    /\ []VisibleIffComplete
    /\ [][VisibleStaysVisible]_vars

\* The upload of epoch 1 failed at one step and its writer is done: its slice
\* is absent, and the slice of epoch 0, completed before, is there.
C4_Witness ==
    /\ 0 \in DOMAIN writers
    /\ 1 \in DOMAIN writers
    /\ writers[1].pc = "done"
    /\ queue = <<>>
    /\ \E i \in 1..Len(Applied(slice_key(1))) : ~Applied(slice_key(1))[i].ok
    /\ slice_key(1) \notin Listed(storage)
    /\ slice_key(0) \in Listed(storage)
    /\ storage[slice_key(0)] = SliceBytes(writers[0])

\* The commands the worker applied for a key, in the order it applied them.
AppliedCommands(key) == [i \in 1..Len(Applied(key)) |-> Applied(key)[i].command]

\* The sequence the worker is to apply for the slice of writer w.
SliceSequence(w) ==
    <<[kind |-> "CreateUpload", key |-> w.record_store_key, data |-> <<>>],
      [kind |-> "UploadChunk", key |-> w.record_store_key,
       data |-> to_le_bytes(Len(bincode_serialize(w.source_states)), 8)],
      [kind |-> "UploadChunk", key |-> w.record_store_key,
       data |-> bincode_serialize(w.source_states)],
      [kind |-> "UploadChunk", key |-> w.record_store_key, data |-> w.data],
      [kind |-> "CompleteUpload", key |-> w.record_store_key, data |-> <<>>]>>

\* No command for the key waits in the queue.
NoneQueued(key) == \A i \in 1..Len(queue) : queue[i].key # key

\* C5: per-key command ordering.  For every slice key the worker applies
\* exactly CreateUpload, UploadChunk(8-byte little-endian length of the
\* serialised source states), UploadChunk(serialised source states),
\* UploadChunk(record data), CompleteUpload, in that order, while processor
\* objects and other writers enqueue commands for other keys in between, with a
\* queue of capacity 1: what it has applied is always the start of that
\* sequence, and all of it once the writer has sent its last command and none
\* is queued.
C5_PerKeyCommandOrder ==
    \A e \in DOMAIN writers :
        /\ Len(AppliedCommands(writers[e].record_store_key)) <= 5
        /\ AppliedCommands(writers[e].record_store_key)
               = SubSeq(SliceSequence(writers[e]), 1,
                        Len(AppliedCommands(writers[e].record_store_key)))
        /\ \A i \in 1..Len(Applied(writers[e].record_store_key)) :
               Applied(writers[e].record_store_key)[i].ok
        /\ (writers[e].pc = "done" /\ NoneQueued(writers[e].record_store_key))
               => AppliedCommands(writers[e].record_store_key) = SliceSequence(writers[e])

\* With a queue of capacity 1, the worker has applied the first three commands
\* of the slice of epoch 0, the writer has sent no more, and the queue holds a
\* command of a processor object of epoch 1: it comes between the slice's
\* chunks.
C5_Witness ==
    /\ QueueCapacity = 1
    /\ 0 \in DOMAIN writers
    /\ writers[0].pc = "send"
    /\ Len(writers[0].sent) = 3
    /\ AppliedCommands(slice_key(0)) = SubSeq(SliceSequence(writers[0]), 1, 3)
    /\ Len(queue) = 1
    /\ queue[1].key \in DOMAIN objects
    /\ objects[queue[1].key].epoch_id = 1

\* The drop of the writer of epoch e failed as the claim says: it returned
\* CheckpointWriterThreadPanicked, the error is logged, the worker is gone.
DropFailedLogged(e) ==
    /\ writers[e].result = Err(CheckpointWriterThreadPanicked)
    /\ [epoch_id |-> e, error |-> CheckpointWriterThreadPanicked] \in log
    /\ worker # "running"
    /\ Len(writers[e].sent) < 5

\* C6: scoped commit.  Every CheckpointWriter that goes out of scope runs the
\* factory's slice commit for its own slice key and its own snapshot of the
\* source states; when the commit fails because the queue is closed, the
\* failure is CheckpointWriterThreadPanicked, it is logged, and the drop
\* completes.  A factory is gone only after each of its writers was dropped.
C6_ScopedCommit ==
    /\ \A e \in DOMAIN writers :
           /\ writers[e].record_store_key = <<factory_prefix[1], RecordStoreDir, format_epoch_id(e)>>
           /\ writers[e].sent = SubSeq(SliceSequence(writers[e]), 1, Len(writers[e].sent))
           /\ writers[e].pc \in {"send", "done"} =>
                  /\ e \in DOMAIN hist
                  /\ hist[e].source_states = writers[e].source_states
           /\ writers[e].pc = "done" <=> writers[e].result # Ok("pending")
           /\ writers[e].pc = "done" =>
                  \/ writers[e].result = Ok("done")
                         /\ writers[e].sent = SliceSequence(writers[e])
                  \/ DropFailedLogged(e)
    /\ \A entry \in log :
           /\ entry.epoch_id \in DOMAIN writers
           /\ entry.error = CheckpointWriterThreadPanicked
           /\ writers[entry.epoch_id].result = Err(entry.error)
    /\ factory # "up" => \A e \in DOMAIN writers : writers[e].pc = "done"

\* The worker died after two commands of the slice of epoch 1: the drop of the
\* writer is done, with CheckpointWriterThreadPanicked returned and logged,
\* while the drop of the writer of epoch 0 went through.
C6_Witness ==
    /\ 0 \in DOMAIN writers
    /\ 1 \in DOMAIN writers
    /\ writers[0].pc = "done"
    /\ writers[0].result = Ok("done")
    /\ writers[1].pc = "done"
    /\ DropFailedLogged(1)
    /\ Len(writers[1].sent) = 2
    /\ worker = "dead"

\* The keys a recovery of the storage lists, in the order of the listing.
Listing(st) == ListedKeys(st, record_store_prefix(factory_prefix))

\* The descriptor is that of the last listed object, the slice of epoch e.
DescriptorOfLast(descriptor, st, e) ==
    /\ Last(Listing(st)) = slice_key(e)
    /\ descriptor.present
    /\ descriptor.epoch_id = e
    /\ descriptor.processor_prefix = <<factory_prefix[1], format_epoch_id(e)>>
    /\ e \in DOMAIN hist
    /\ descriptor.source_states = hist[e].source_states
    /\ \A other \in 0..MaxEpoch : slice_key(other) \in DOMAIN st => other <= e
    /\ num_slices(descriptor) = Len(Listing(st))

\* What a recovery of the storage that succeeds returns, whatever the pages.
SelectsLatest(st) ==
    \A paging \in Pagings :
        \A new \in {CheckpointFactory_new(st, paging, NoFault)} :
            new.ok =>
                IF Listing(st) = <<>> THEN new.val.checkpoint = NoCheckpoint
                ELSE \E e \in 0..MaxEpoch : DescriptorOfLast(new.val.checkpoint, st, e)

\* C7: recovery selects the latest epoch.  Over any number of listing pages
\* the descriptor's epoch_id, source_states and processor_prefix are those of
\* the last object of the last non-empty page, the slice with the highest epoch
\* id in the storage, and num_slices is the number of objects listed over all
\* pages.  The factory that is up holds the descriptor of the storage it
\* recovered.
C7_RecoverySelectsLatest ==
    /\ SelectsLatest(storage)
    /\ factory = "up" =>
           \A paging \in Pagings :
               \A new \in {CheckpointFactory_new(recovered.storage, paging, NoFault)} :
                   new.ok => new.val.checkpoint = checkpoint

\* A factory is up over a directory of two slices: pages of one key, with and
\* without an empty last page, and a page of two keys gave it the descriptor
\* of epoch 1 with num_slices 2.
C7_Witness ==
    /\ factory = "up"
    /\ Listing(recovered.storage) = <<slice_key(0), slice_key(1)>>
    /\ DescriptorOfLast(checkpoint, recovered.storage, 1)
    /\ num_slices(checkpoint) = 2
    /\ \A paging \in Pagings :
           /\ CheckpointFactory_new(recovered.storage, paging, NoFault).ok
           /\ CheckpointFactory_new(recovered.storage, paging, NoFault).val.checkpoint
                  = checkpoint

\* The length the 8-byte header of an object claims for the source states.
ClaimedLength(data) == from_le_bytes(SubSeq(data, 1, 8))

\* The header claims more bytes than remain after it.
OverClaims(data) == Len(data) >= 8 /\ ClaimedLength(data) > Len(data) - 8

\* The bytes of the slice the history holds for epoch e.
CommittedBytes(e) ==
    Concat(<<to_le_bytes(Len(bincode_serialize(hist[e].source_states)), 8),
             bincode_serialize(hist[e].source_states),
             <<Len(hist[e].records)>>,
             hist[e].records>>)

\* The object is a slice as it was committed, under the key of its epoch.
Undamaged(st, key) ==
    \E e \in DOMAIN hist : key = slice_key(e) /\ st[key] = CommittedBytes(e)

\* The recovery of the storage fails with NotEnoughData of the object, whatever
\* the pages.
FailsWithNotEnoughData(st, key) ==
    \A paging \in Pagings :
        CheckpointFactory_new(st, paging, NoFault)
            = Err(NotEnoughData(ClaimedLength(st[key]), Len(st[key]) - 8))

\* C8: a slice whose 8-byte header claims more source-states bytes than remain
\* in the object makes recovery fail, whichever position the slice has in the
\* listing and whatever the pages; the error is NotEnoughData with the claimed
\* length as expected and the bytes after the header as remaining when every
\* other listed object is an undamaged slice.
C8_OverClaimingHeaderFails ==
    \A key \in Listed(storage) :
        (OverClaims(storage[key]) /\ \E e \in 0..MaxEpoch : key = slice_key(e)) =>
            /\ \A paging \in Pagings : ~CheckpointFactory_new(storage, paging, NoFault).ok
            /\ (\A other \in Listed(storage) \ {key} : Undamaged(storage, other))
                   => FailsWithNotEnoughData(storage, key)

\* The claim as it is stated: every slice that claims too much makes recovery
\* fail with its own NotEnoughData, whatever else the listing holds.
C8_AsStated ==
    \A key \in Listed(storage) :
        (OverClaims(storage[key]) /\ \E e \in 0..MaxEpoch : key = slice_key(e)) =>
            FailsWithNotEnoughData(storage, key)

\* The first of two slices claims 999 bytes and holds 10 after the header; the
\* second is undamaged; new() failed with NotEnoughData{999, 10}.
C8_Witness ==
    /\ factory = "failed"
    /\ Listing(storage) = <<slice_key(0), slice_key(1)>>
    /\ storage[slice_key(0)] = Claims999
    /\ Undamaged(storage, slice_key(1))
    /\ new_error = NotEnoughData(999, 10)
    /\ FailsWithNotEnoughData(storage, slice_key(0))

\* The key does not strip the record_store prefix, or what remains is no u64.
Unrecognized(key) ==
    \/ ~strip_prefix(key, record_store_prefix(factory_prefix)).ok
    \/ ~parse_u64(KeyString(strip_prefix(key, record_store_prefix(factory_prefix)).val)).ok

\* C9: any key listed under the record_store prefix that does not strip the
\* prefix or does not parse as a u64 makes recovery fail (with
\* UnrecognizedCheckpoint(key), the claim says), for every listed object and not
\* only for the last object of a page.
C9_UnrecognizedKeyFails ==
    \A key \in Listed(storage) :
        Unrecognized(key) =>
            \A paging \in Pagings : ~CheckpointFactory_new(storage, paging, NoFault).ok

\* The number of list calls a recovery of the storage makes with this paging.
ListCalls(st, paging) ==
    IF Listing(st) = <<>> THEN 1
    ELSE (Len(Listing(st)) + paging.page_size - 1) \div paging.page_size
             + (IF paging.empty_tail THEN 1 ELSE 0)

\* The list call or the download of the fault is one the recovery makes.
FaultMet(st, paging, fault) ==
    \/ fault.list \in 1..ListCalls(st, paging)
    \/ fault.download \in Listed(st)

\* The committed records of every slice the factory recovered are in its
\* record store, in their order.
HoldsEveryCommit ==
    \A e \in EpochsIn(recovered.storage) :
        \E at \in 0..Len(recovered.record_store) :
            SubSeq(recovered.record_store, at + 1, at + Len(hist[e].records))
                = hist[e].records

\* C10: recovery is all-or-nothing.  When a list call or a download fails, or
\* a listed slice is no longer what was committed, CheckpointFactory::new
\* returns an error, and with it no factory, no record store and no
\* descriptor; a factory that is up holds the records of every slice of the
\* directory it recovered, never a part of them.
C10_RecoveryAllOrNothing ==
    /\ (\A key \in Listed(storage) : Undamaged(storage, key)) =>
           \A paging \in Pagings :
               \A fault \in FaultsOf(storage) :
                   FaultMet(storage, paging, fault) =>
                       CheckpointFactory_new(storage, paging, fault) = Err(StorageError)
    /\ (\E e \in 0..MaxEpoch :
            slice_key(e) \in DOMAIN storage /\ ~Undamaged(storage, slice_key(e))) =>
           \A paging \in Pagings : ~CheckpointFactory_new(storage, paging, NoFault).ok
    /\ factory = "failed" =>
           /\ new_error # NoError
           /\ record_store = EmptyRecordStore
           /\ checkpoint = NoCheckpoint
           /\ next_record_index = 0
           /\ writers = EmptyMap
    /\ factory = "up" =>
           /\ new_error = NoError
           /\ \A e \in 0..MaxEpoch :
                  slice_key(e) \in DOMAIN recovered.storage
                      => Undamaged(recovered.storage, slice_key(e))
           /\ HoldsEveryCommit

\* The slice of epoch 0 lost its last byte after the commit of epoch 1, whose
\* slice is undamaged: new() failed, and there is no record store and no
\* descriptor.
C10_Witness ==
    /\ factory = "failed"
    /\ Listing(storage) = <<slice_key(0), slice_key(1)>>
    /\ storage[slice_key(0)] = Take(CommittedBytes(0), Len(CommittedBytes(0)) - 1)
    /\ Len(hist[0].records) > 0
    /\ Undamaged(storage, slice_key(1))
    /\ new_error = OtherError("RecordStore")
    /\ record_store = EmptyRecordStore
    /\ checkpoint = NoCheckpoint

\* What an absent descriptor answers, whatever the storage holds and whichever
\* download would fail.
AnswersNothing(descriptor, st) ==
    /\ num_slices(descriptor) = 0
    /\ next_epoch_id(descriptor) = 0
    /\ \A h \in Handles \cup ProcessorHandles :
           /\ get_source_state(descriptor, h) = NoOpIdentifier
           /\ \A fault \in {NoFault} \cup FaultsOf(st) :
                  load_processor_data(descriptor, st, h, fault)
                      = [result |-> [ok |-> TRUE, val |-> [some |-> FALSE, bytes |-> <<>>]],
                         downloads |-> <<>>]

\* C11: a descriptor is present after recovery if and only if at least one
\* object exists under the record_store prefix; when it is absent,
\* num_slices() = 0, next_epoch_id() = 0, get_source_state(h) is None for every
\* h, load_processor_data returns Ok(None) and asks the storage for nothing,
\* and the recovered record store is empty.
C11_PresentIffSliceExists ==
    /\ \A paging \in Pagings :
           \A new \in {CheckpointFactory_new(storage, paging, NoFault)} :
               new.ok =>
                   /\ new.val.checkpoint.present <=> Listed(storage) # {}
                   /\ ~new.val.checkpoint.present =>
                          /\ AnswersNothing(new.val.checkpoint, storage)
                          /\ new.val.record_store = <<>>
                          /\ new.val.next_record_index = 0
    /\ factory = "up" =>
           /\ checkpoint.present <=> Listed(recovered.storage) # {}
           /\ ~checkpoint.present =>
                  /\ AnswersNothing(checkpoint, storage)
                  /\ recovered.record_store = <<>>

\* The directory holds a processor object of epoch 0 and no slice yet, as a
\* kill of the process at this point leaves it: a factory opened over it has
\* no descriptor and an empty record store, and load_processor_data does not
\* ask for the object.
C11_Witness ==
    /\ Listed(storage) = {}
    /\ \E h \in ProcessorHandles :
           /\ processor_key(processor_prefix(factory_prefix, format_epoch_id(0)), h)
                  \in DOMAIN storage
           /\ load_processor_data(NoCheckpoint, storage, h, NoFault).downloads = <<>>
    /\ \A paging \in Pagings :
           /\ CheckpointFactory_new(storage, paging, NoFault).ok
           /\ ~CheckpointFactory_new(storage, paging, NoFault).val.checkpoint.present
           /\ CheckpointFactory_new(storage, paging, NoFault).val.record_store = <<>>

\* Decimal digits as a string.
DigitString(digits) == [i \in 1..Len(digits) |-> 48 + digits[i]]

\* Numbers over the whole range of u64, by their digits: around every change of
\* length, around 2^31 and 2^32, and the largest ones.
U64Samples ==
    {DigitString(d) : d \in
        {<<0>>, <<1>>, <<9>>, <<1, 0>>, <<1, 1>>, <<9, 9>>, <<1, 0, 0>>,
         <<2, 1, 4, 7, 4, 8, 3, 6, 4, 7>>, <<4, 2, 9, 4, 9, 6, 7, 2, 9, 6>>,
         <<9, 9, 9, 9, 9, 9, 9, 9, 9, 9, 9, 9, 9, 9, 9, 9, 9, 9, 9>>,
         <<1, 0, 0, 0, 0, 0, 0, 0, 0, 0, 0, 0, 0, 0, 0, 0, 0, 0, 0, 0>>,
         <<1, 8, 4, 4, 6, 7, 4, 4, 0, 7, 3, 7, 0, 9, 5, 5, 1, 6, 1, 4>>}}
        \cup {U64MaxDigits}

\* The slice key of the epoch with these digits, as the storage orders it.
SliceKeyString(digits) ==
    KeyString(Append(record_store_prefix(factory_prefix), pad_epoch_digits(digits)))

\* What recovery parses from a slice key: the name under the directory.
ParsedName(key) ==
    Bind(strip_prefix(key, record_store_prefix(factory_prefix)),
         LAMBDA object_name : parse_u64_digits(KeyString(object_name)))

\* Keys order like numbers and parse back, over the range of u64.
KeysOrderLikeNumbers ==
    \A a \in U64Samples :
        /\ Len(pad_epoch_digits(a)) = EpochWidth
        /\ ParsedName(Append(record_store_prefix(factory_prefix), pad_epoch_digits(a)))
               = Ok(a)
        /\ \A b \in U64Samples :
               DigitsLess(a, b) => LexLess(SliceKeyString(a), SliceKeyString(b))

\* The keys of the writers order like their epochs and parse back to them.
WriterKeysOrdered ==
    \A a \in DOMAIN writers :
        /\ writers[a].record_store_key = slice_key(a)
        /\ Bind(strip_prefix(slice_key(a), record_store_prefix(factory_prefix)),
                LAMBDA object_name : parse_u64(KeyString(object_name))) = Ok(a)
        /\ \A b \in DOMAIN writers :
               a < b => LexLess(KeyString(slice_key(a)), KeyString(slice_key(b)))

\* The epoch a listed key parses to.
EpochOf(key) ==
    Bind(strip_prefix(key, record_store_prefix(factory_prefix)),
         LAMBDA object_name : parse_u64(KeyString(object_name)))

\* The listing is in strictly increasing epoch order.
ListingIncreases ==
    \E listing \in {Listing(storage)} :
        \A i, j \in 1..Len(listing) :
            i < j => /\ EpochOf(listing[i]).ok
                     /\ EpochOf(listing[j]).ok
                     /\ EpochOf(listing[i]).val < EpochOf(listing[j]).val

\* C12: for epoch ids a < b in the u64 range the slice key of a is
\* lexicographically below the slice key of b, so the listing of the directory
\* is in strictly increasing epoch order, and the name under the directory
\* parses back to the epoch id.
C12_KeysOrderLikeEpochs ==
    /\ KeysOrderLikeNumbers
    /\ WriterKeysOrdered
    /\ ListingIncreases

\* Slices of epochs 9, 10 and 100 are listed in this order, and a fresh factory
\* resumes after epoch 100.
C12_Witness ==
    /\ Listing(storage) = <<slice_key(9), slice_key(10), slice_key(100)>>
    /\ factory = "up"
    /\ checkpoint.present
    /\ checkpoint.epoch_id = 100
    /\ DOMAIN writers = {}

\* Record stores: the records in every order, with repetitions.
Stores == UNION {[1..n -> Records] : n \in 0..MaxRecord}

\* The commits of a store of n records: the record counts the successive
\* serialize_slice calls observed, ending with n.
Cuts(n) ==
    {cuts \in UNION {[1..k -> 0..n] : k \in 1..(MaxRecord + 1)} :
        /\ cuts[Len(cuts)] = n
        /\ \A i \in 1..(Len(cuts) - 1) : cuts[i] <= cuts[i + 1]}

\* The slices of the store S for the cuts, in commit order: each
\* serialize_slice(from_index) is called on the store as it was at the commit.
SlicesOf(S, cuts) ==
    [i \in 1..Len(cuts) |->
        serialize_slice(SubSeq(S, 1, cuts[i]), IF i = 1 THEN 0 ELSE cuts[i - 1]).data]

\* deserialize_and_extend of the slices in order, on the store.
RECURSIVE ExtendAll(_, _)
ExtendAll(store, datas) ==
    IF datas = <<>> THEN Ok(store)
    ELSE Bind(deserialize_and_extend(store, Head(datas)),
              LAMBDA extended : ExtendAll(extended, Tail(datas)))

\* The two stores answer num_records and get alike.
SameStore(a, b) ==
    /\ num_records(a) = num_records(b)
    /\ \A i \in 0..(num_records(a) - 1) : get(a, i) = get(b, i)

\* Every store comes back from every partition into slices.
RoundTrips ==
    \A S \in Stores : \A cuts \in Cuts(Len(S)) :
        \E fresh \in {ExtendAll(EmptyRecordStore, SlicesOf(S, cuts))} :
            fresh.ok /\ SameStore(fresh.val, S)

\* The slices this factory serialised, in commit order.
SerializedData == [i \in 1..Len(slices) |-> writers[slices[i].epoch_id].data]

\* The store the factory started with, extended by the slices it serialised in
\* commit order, is the store up to the last commit.
CommitsRoundTrip ==
    factory = "up" =>
        \E fresh \in {ExtendAll(recovered.record_store, SerializedData)} :
            /\ fresh.ok
            /\ SameStore(fresh.val, SubSeq(record_store, 1, next_record_index))

\* C13: slice round trip.  For every record store and every partition of it into
\* slices by successive serialize_slice(from_index) calls in commit order, a
\* fresh store that applies deserialize_and_extend to the slices in that order
\* has the same num_records and returns the same record for get(i) at every i.
C13_SliceRoundTrip ==
    /\ RoundTrips
    /\ CommitsRoundTrip

\* Two commits of one record each, the second against the epoch order; the
\* slices in commit order rebuild the store of two records.
C13_Witness ==
    /\ factory = "up"
    /\ Len(slices) = 2
    /\ slices[1].epoch_id > slices[2].epoch_id
    /\ SerializedData = <<<<1, 1>>, <<1, 2>>>>
    /\ ExtendAll(EmptyRecordStore, SerializedData) = Ok(record_store)
    /\ num_records(record_store) = 2

\* Sequences of create_ref calls: the records, in every order, with repetitions.
CallSequences == UNION {[1..n -> Records] : n \in 0..(MaxRecord + 1)}

\* The store after the calls.
RECURSIVE StoreAfter(_, _)
StoreAfter(store, calls) ==
    IF calls = <<>> THEN store
    ELSE StoreAfter(create_ref(store, Head(calls)), Tail(calls))

\* The indices the calls return, in the order of the calls.
ReturnedIndices(store, calls) ==
    [i \in 1..Len(calls) |->
        create_ref_index(StoreAfter(store, SubSeq(calls, 1, i - 1)), calls[i])]

\* From the empty store: equal records get equal indices, different records
\* different ones, and the indices are those below the number of distinct
\* records, which is num_records.
InternsFromEmpty ==
    \A calls \in CallSequences :
        \E indices \in {ReturnedIndices(EmptyRecordStore, calls)} :
            /\ \A i, j \in 1..Len(calls) :
                   calls[i] = calls[j] <=> indices[i] = indices[j]
            /\ Range(indices) = 0..(Cardinality(Range(calls)) - 1)
            /\ num_records(StoreAfter(EmptyRecordStore, calls))
                   = Cardinality(Range(calls))

\* The store of the factory holds no record twice, and a call for a record
\* returns the index the record is at, or the next index for a new record.
StoreInterned ==
    /\ Cardinality(Range(record_store)) = num_records(record_store)
    /\ \A record \in Records :
           \E index \in {create_ref_index(record_store, record)} :
               /\ index \in 0..num_records(record_store)
               /\ index < num_records(record_store) => get(record_store, index) = record
               /\ index = num_records(record_store) => record \notin Range(record_store)
               /\ create_ref_index(create_ref(record_store, record), record) = index

SendersHoldNoMutex ==
    /\ \A e \in DOMAIN writers : writers[e].pc \in {"send", "done"} => mutex # e
    /\ mutex # NoWriter => mutex \in DOMAIN writers /\ writers[mutex].pc = "locked"

\* A step that puts a command into the queue.
QueueSend == Len(queue') = Len(queue) + 1

\* The step of the holder of the mutex: the slice from next_record_index on is
\* serialised, next_record_index advances by its records, the mutex is free.
SerializesAndReleases(e) ==
    \E slice \in {serialize_slice(record_store, next_record_index)} :
        /\ writers'[e].data = slice.data
        /\ next_record_index' = next_record_index + slice.num_records_serialized
        /\ mutex' = NoWriter
        /\ queue' = queue

\* C15: the mutex is not held across the queue send.  No thread that executes a
\* queue send, or waits in one for room in the queue, holds the mutex; the
\* mutex is held only while the slice is serialised and next_record_index is
\* advanced.
C15_MutexNotHeldAcrossSend ==
    /\ []SendersHoldNoMutex
    /\ [][QueueSend => mutex = NoWriter \/ writers'[mutex] = writers[mutex]]_vars
    /\ [][\A e \in DOMAIN writers :
              (mutex = e /\ <<mutex, writers[e], next_record_index>>
                                # <<mutex', writers'[e], next_record_index'>>)
                  => SerializesAndReleases(e)]_vars

\* The writer of epoch 0 waits to send into the full queue while the writer of
\* epoch 1 holds the mutex.
C15_Witness ==
    /\ DOMAIN writers = {0, 1}
    /\ writers[0].pc = "send"
    /\ Len(queue) = QueueCapacity
    /\ mutex = 1
    /\ writers[1].pc = "locked"

\* The drop of the writer of epoch e has started: it waits for the mutex, holds
\* it, or sends.
DropStarted(e) ==
    /\ e \in DOMAIN writers
    /\ \/ writers[e].pc \in {"locked", "send"}
       \/ writers[e].pc = "open" /\ ObjectsFinished(e)

\* The drop has ended: all five commands are in the queue, or a send failed
\* because the queue is closed and the failure is logged.
DropEnded(e) ==
    /\ e \in DOMAIN writers
    /\ writers[e].pc = "done"
    /\ \/ writers[e].result.ok /\ Len(writers[e].sent) = 5
       \/ /\ ~writers[e].result.ok
          /\ worker # "running"
          /\ \E entry \in log : entry.epoch_id = e

\* C16: no deadlock.  With several writers and processors sending into a queue of
\* bounded capacity and a fairly scheduled worker, every drop of a writer that
\* has started ends: its five commands are enqueued, or it returns with an error
\* because the queue is closed.
C16_DropsFinish == \A e \in 0..MaxEpoch : DropStarted(e) ~> DropEnded(e)

\* Both writers have enqueued their five commands and a processor its object,
\* through a queue of capacity 1.
C16_Witness ==
    /\ DOMAIN writers = {0, 1}
    /\ DropEnded(0)
    /\ DropEnded(1)
    /\ writers[0].result.ok
    /\ writers[1].result.ok
    /\ \E key \in DOMAIN objects : objects[key].sent = Len(objects[key].commands)
    /\ QueueCapacity = 1

\* The slice of the writer of epoch e is visible in the storage.
SliceVisible(e) == writers[e].record_store_key \in DOMAIN storage

\* C17: across epochs, the order in which the slices become visible in the
\* storage is the commit order, the order in which their writers took their
\* record range under the mutex, also when two writers are dropped
\* concurrently: while no upload fails, a visible slice has every slice that was
\* committed before it visible too.
C17_VisibleInCommitOrder ==
    \A i, j \in 1..Len(slices) :
        (i < j /\ SliceVisible(slices[j].epoch_id)) => SliceVisible(slices[i].epoch_id)

\* The commits whose slice the recovery of this factory did not find.
MissingSlices == {e \in DOMAIN hist : slice_key(e) \notin DOMAIN recovered.storage}

\* The commits before epoch E whose slice the recovery found.
PresentBefore(E) == {e \in EpochsIn(recovered.storage) : e < E}

\* The recovery stopped before epoch E: the descriptor is that of the last
\* commit before E whose slice is present, with its source states, and the
\* record store holds the records of the commits up to it; without such a
\* commit there is no descriptor and the store is empty.
StoppedBefore(E) ==
    /\ recovered.record_store = CommittedRecords(PresentBefore(E))
    /\ IF PresentBefore(E) = {} THEN ~checkpoint.present
       ELSE /\ checkpoint.present
            /\ checkpoint.epoch_id = Max(PresentBefore(E))
            /\ checkpoint.source_states = hist[Max(PresentBefore(E))].source_states

\* C18: best-effort upload is safe.  When the upload of the slice of epoch E
\* failed, so that the slice is missing from the storage, the next recovery
\* stops at the previous epoch: it returns the descriptor and the record store
\* of the last epoch before E whose slice is present, and its source positions
\* agree with its record store, also when slices of epochs after E were
\* uploaded.
C18_RecoveryStopsBeforeMissing ==
    (factory = "up" /\ MissingSlices # {}) => StoppedBefore(Min(MissingSlices))

\* The commands the senders put into the queue for a key: those of a writer, or
\* those of a processor object.
SentFor(key) ==
    IF key \in DOMAIN objects
    THEN SubSeq(objects[key].commands, 1, objects[key].sent)
    ELSE IF \E e \in DOMAIN writers : writers[e].record_store_key = key
    THEN writers[CHOOSE e \in DOMAIN writers : writers[e].record_store_key = key].sent
    ELSE <<>>

SenderKeys == DOMAIN objects \cup {writers[e].record_store_key : e \in DOMAIN writers}

\* The queue is drained: every command that was sent has been applied, in the
\* order it was sent, and the slice of every writer that sent all its commands
\* is visible with its bytes.
Drained ==
    /\ queue = <<>>
    /\ \A key \in SenderKeys : AppliedCommands(key) = SentFor(key)
    /\ \A e \in DOMAIN writers :
           writers[e].result.ok =>
               /\ slice_key(e) \in DOMAIN storage
               /\ storage[slice_key(e)] = SliceBytes(writers[e])

\* Every sender is dropped: the factory and with it its writers and objects.
SendersDropped == factory = "dropped" /\ worker = "running"

\* C19: a clean shutdown drains the queue.  Once every sender is dropped the
\* worker ends, and when it has ended (its join handle resolves) every command
\* that was enqueued has been applied: the slice of the last writer is visible.
C19_ShutdownDrains ==
    /\ [](Joined /\ faults = 0 => Drained)
    /\ SendersDropped ~> Joined

\* The worker was joined after two writers and a processor object sent all
\* their commands; the slice of epoch 1, the last, is in the storage.
C19_Witness ==
    /\ Joined
    /\ faults = 0
    /\ DOMAIN writers = {0, 1}
    /\ \A e \in {0, 1} : Len(writers[e].sent) = 5
    /\ objects # EmptyMap
    /\ storage[slice_key(1)] = SliceBytes(writers[1])
    /\ Drained

\* The key of the object of processor h at epoch e.
object_key(e, h) ==
    processor_key(processor_prefix(factory_prefix, format_epoch_id(e)), h)

\* Whenever the slice of a writer is visible, every processor object created
\* under the writer is visible with the bytes the processor wrote.
ObjectsVisibleWithSlice ==
    \A e \in DOMAIN writers :
        SliceVisible(e) =>
            \A h \in ProcessorHandles :
                object_key(e, h) \in DOMAIN objects =>
                    /\ objects[object_key(e, h)].epoch_id = e
                    /\ object_key(e, h) \in DOMAIN storage
                    /\ storage[object_key(e, h)] = ObjectData(e, h)

\* After a recovery at epoch E, load_processor_data returns the bytes of every
\* processor object written at E.
LoadsWhatWasWritten ==
    (factory = "up" /\ checkpoint.present) =>
        \A h \in ProcessorHandles :
            object_key(checkpoint.epoch_id, h) \in DOMAIN storage =>
                load_processor_data(checkpoint, storage, h, NoFault).result
                    = Ok(SomeData(ObjectData(checkpoint.epoch_id, h)))

\* C20: slice visibility implies earlier processor objects.  When every
\* processor object of a writer is finalised before the writer is dropped and
\* no upload fails, then whenever the slice of epoch E is visible every
\* processor object under the processor prefix of E is visible, and after a
\* recovery at E load_processor_data(h) returns exactly the bytes written.
C20_SliceImpliesObjects ==
    /\ ObjectsVisibleWithSlice
    /\ LoadsWhatWasWritten

\* A factory recovered at epoch 1, whose processor wrote an object; the load
\* returns its bytes.
C20_Witness ==
    /\ factory = "up"
    /\ checkpoint.present
    /\ checkpoint.epoch_id = 1
    /\ \E h \in ProcessorHandles :
           /\ object_key(1, h) \in DOMAIN storage
           /\ load_processor_data(checkpoint, storage, h, NoFault).result
                  = Ok(SomeData(ObjectData(1, h)))

\* The commands for the key that wait in the queue.
QueuedFor(key) == {i \in 1..Len(queue) : queue[i].key = key}

\* The number of commands of the kind among the commands.
CountKind(commands, kind) ==
    Cardinality({i \in 1..Len(commands) : commands[i].kind = kind})

\* A writer has sent the start of one upload of its own key, all of it once its
\* drop has returned without error, and what the queue holds and the worker has
\* applied for the key is what the writer sent: no one else uploads the key.
OneUploadPerDrop ==
    \A e \in DOMAIN writers :
        /\ Len(writers[e].sent) <= 5
        /\ writers[e].sent = SubSeq(SliceSequence(writers[e]), 1, Len(writers[e].sent))
        /\ CountKind(writers[e].sent, "CreateUpload") <= 1
        /\ CountKind(writers[e].sent, "CompleteUpload") <= 1
        /\ \A i \in 1..Len(writers[e].sent) :
               writers[e].sent[i].key = writers[e].record_store_key
        /\ (writers[e].pc = "done" /\ writers[e].result.ok)
               => /\ writers[e].sent = SliceSequence(writers[e])
                  /\ CountKind(writers[e].sent, "CreateUpload") = 1
                  /\ CountKind(writers[e].sent, "CompleteUpload") = 1
        /\ Len(Applied(writers[e].record_store_key))
               + Cardinality(QueuedFor(writers[e].record_store_key))
               = Len(writers[e].sent)

\* When the slice of every commit so far is in the storage, a fresh factory
\* counts as many slices as there were commits.
CountsCommits ==
    (\A e \in DOMAIN hist : slice_key(e) \in DOMAIN storage) =>
        \A paging \in Pagings :
            \E new \in {CheckpointFactory_new(storage, paging, NoFault)} :
                /\ new.ok
                /\ num_slices(new.val.checkpoint) = Cardinality(DOMAIN hist)

\* C21: every writer drop emits exactly one slice upload, one sequence from
\* CreateUpload to CompleteUpload for its own key, also when no record was
\* appended since the commit before, and never a second one; so after k
\* successful commits at k distinct epoch ids on an empty directory a fresh
\* factory reports num_slices = k, however many records each epoch added.
C21_OneSlicePerDrop ==
    /\ []OneUploadPerDrop
    /\ []CountsCommits
    /\ [][\A e \in DOMAIN writers :
              (writers[e].pc = "done" /\ e \in DOMAIN writers')
                  => writers'[e].sent = writers[e].sent]_vars

\* Two commits on an empty directory, the first with two records and the second
\* with none; the factory that started afterwards counts two slices.
C21_Witness ==
    /\ DOMAIN hist = {0, 1}
    /\ Len(hist[0].records) = 2
    /\ hist[1].records = <<>>
    /\ {slice_key(0), slice_key(1)} \subseteq DOMAIN storage
    /\ storage[slice_key(1)] # storage[slice_key(0)]
    /\ factory = "up"
    /\ num_slices(checkpoint) = 2
    /\ DOMAIN writers = {}

====
